---- MODULE Spec2Model ----
(***************************************************************************)
(* A model of the `canvas` layout core: the DRM frame-buffer validation of *)
(* src/src/drm.rs and the layout algebra of src/src/layout.rs.             *)
(*                                                                         *)
(* Machine integers are scaled: a u32 holds U32Bits bits and a usize       *)
(* UsizeBits bits, so that checked arithmetic overflows inside the model.  *)
(***************************************************************************)
EXTENDS Integers, FiniteSets, Sequences, TLC

VARIABLES
    cmd,        \* the DrmFramebufferCmd handed to DrmLayout::new
    fmt,        \* the DrmFormatInfo the validation runs against
    res,        \* outcome of the constructor: "none", "Ok", "Err", "Panic"
    layout,     \* the DrmLayout built by a successful constructor
    planeq,     \* the last DrmLayout::plane query and its answer
    planelen,   \* byte_len() measured on the PlaneLayout of that answer
    matin,      \* arguments of Matrix::from_width_height
    matres,     \* its result: the Matrix, or None
    matlen,     \* byte_len() and len() measured on the Matrix
    yuvin,      \* arguments of Yuv420p::from_width_height
    yuvres,     \* its result: the Yuv420p, or None
    yuvlen,     \* byte_len() measured on the Yuv420p
    matrix,     \* a Matrix of the layout algebra
    pixel,      \* the pixel witness Pixel<P> at hand
    tmatrix,    \* result of pixel.try_mend(&matrix): a TMatrix<P>, or Err
    decayed,    \* result of Matrix::decay(tmatrix)
    mended,     \* result of pixel.try_mend(&decayed)
    blayout,    \* a Bytes layout
    taken,      \* the last take(): the layout before it and the value returned
    dyn,        \* result of DynLayout::from(layout)
    slen,       \* result of SampleSlice::len() on the TMatrix
    elems,      \* two Element values at hand, by slot
    eop,        \* the last Element operation: its arguments and its answer
    castin,     \* a byte slice, by address and length, and the witness to cast with
    abuf,       \* result of buf::from_bytes(castin): the aligned buffer, or None
    pslice,     \* result of cast_buf(abuf): the typed slice
    pbytes,     \* result of cast_bytes(pslice): the bytes of the typed slice
    rbuf,       \* result of buf::from_bytes(pbytes)
    rslice,     \* result of cast_buf(rbuf): the typed slice cast back
    trio,       \* three Element values a, b, c to compare with each other
    ordtab,     \* partial_cmp of every pair of the three
    meets       \* infimum of the three, in both groupings, and c against a.infimum(b)

drmvars == <<cmd, fmt, res, layout, planeq, planelen>>
matvars == <<matin, matres, matlen>>
yuvvars == <<yuvin, yuvres, yuvlen>>
algvars == <<matrix, pixel, tmatrix, decayed, mended, blayout, taken, dyn, slen>>
elemvars == <<elems, eop>>
castvars == <<castin, abuf, pslice, pbytes, rbuf, rslice>>
ordvars == <<trio, ordtab, meets>>
\* everything but the frame-buffer state
nondrm == <<matvars, yuvvars, algvars, elemvars, castvars, ordvars>>
vars == <<drmvars, nondrm>>

----------------------------------------------------------------------------
(* Machine integers *)

\* width of u32 in the model (32 in the program)
U32Bits == 4
\* width of usize in the model (the pointer width in the program)
UsizeBits == 6

RECURSIVE Pow2(_)
Pow2(n) == IF n = 0 THEN 1 ELSE 2 * Pow2(n - 1)

U32_MAX == Pow2(U32Bits) - 1
USIZE_MAX == Pow2(UsizeBits) - 1

None == [some |-> FALSE, val |-> 0]
Some(v) == [some |-> TRUE, val |-> v]

\* u32::checked_mul / u32::checked_add
checked_mul_u32_wrapping(a, b) == Some((a * b) % (U32_MAX + 1))
checked_mul_u32(a, b) == IF a * b > U32_MAX THEN None ELSE Some(a * b)
checked_add_u32(a, b) == IF a + b > U32_MAX THEN None ELSE Some(a + b)

\* usize::try_from(u32)
usize_try_from(x) == IF x > USIZE_MAX THEN None ELSE Some(x)

\* an unchecked usize product: overflow panics or wraps, depending on the build
mul_usize(a, b) == [overflow |-> a * b > USIZE_MAX, val |-> (a * b) % (USIZE_MAX + 1)]

\* an unchecked usize sum: overflow panics or wraps, depending on the build
add_usize(a, b) == [overflow |-> a + b > USIZE_MAX, val |-> (a + b) % (USIZE_MAX + 1)]

\* u8::is_power_of_two
is_power_of_two(x) == x \in {1, 2, 4, 8, 16, 32, 64, 128}

Arr4(a, b, c, d) ==
    [i \in 0..3 |-> CASE i = 0 -> a [] i = 1 -> b [] i = 2 -> c [] OTHER -> d]

----------------------------------------------------------------------------
(* FourCC *)

\* FourCC::from: the four ASCII bytes packed low byte first
FourCC_from(arr) ==
    arr[1] + arr[2] * 256 + arr[3] * 65536 + arr[4] * 16777216

FourCC_INVALID == 0
FourCC_C8 == FourCC_from(<<67, 56, 32, 32>>)
FourCC_RGB332 == FourCC_from(<<82, 71, 66, 56>>)
FourCC_BGR332 == FourCC_from(<<66, 71, 82, 56>>)
FourCC_XRGB444 == FourCC_from(<<88, 82, 49, 50>>)
FourCC_XBGR444 == FourCC_from(<<88, 66, 49, 50>>)
FourCC_RGBX444 == FourCC_from(<<82, 88, 49, 50>>)
FourCC_BGRX444 == FourCC_from(<<66, 88, 49, 50>>)

\* pixel::constants::U8 / U16 converted into layout::Element
Element_U8 == [size |-> 1, align |-> 1]
Element_U16 == [size |-> 2, align |-> 2]

PIXEL1_TEMPLATE ==
    [format |-> FourCC_INVALID,
     num_planes |-> 0,
     char_per_block |-> Arr4(0, 0, 0, 0),
     block_w |-> Arr4(1, 1, 1, 1),
     block_h |-> Arr4(1, 1, 1, 1),
     hsub |-> 1,
     vsub |-> 1,
     has_alpha |-> FALSE,
     is_yuv |-> FALSE]

\* FourCC::info
FourCC_info_any(self) ==
    [ok |-> TRUE,
     info |-> [PIXEL1_TEMPLATE EXCEPT !.num_planes = 1,
                                      !.char_per_block = Arr4(1, 0, 0, 0),
                                      !.format = self]]
FourCC_info(self) ==
    IF self = FourCC_C8
    THEN [ok |-> TRUE,
          info |-> [PIXEL1_TEMPLATE EXCEPT !.num_planes = 1,
                                           !.char_per_block = Arr4(1, 0, 0, 0),
                                           !.format = self]]
    ELSE IF self \in {FourCC_RGB332, FourCC_BGR332}
    THEN [ok |-> TRUE,
          info |-> [PIXEL1_TEMPLATE EXCEPT !.num_planes = 1,
                                           !.char_per_block = Arr4(1, 0, 0, 0),
                                           !.format = self]]
    ELSE IF self \in {FourCC_XRGB444, FourCC_XBGR444, FourCC_RGBX444, FourCC_BGRX444}
    THEN [ok |-> TRUE,
          info |-> [PIXEL1_TEMPLATE EXCEPT !.num_planes = 1,
                                           !.char_per_block = Arr4(2, 0, 0, 0),
                                           !.format = self]]
    ELSE [ok |-> FALSE, info |-> PIXEL1_TEMPLATE]

\* FourCC::block_element
FourCC_block_element(self) ==
    IF self \in {FourCC_C8, FourCC_RGB332, FourCC_BGR332}
    THEN Some(Element_U8)
    ELSE IF self \in {FourCC_XRGB444, FourCC_XBGR444, FourCC_RGBX444, FourCC_BGRX444}
    THEN Some(Element_U16)
    ELSE [some |-> FALSE, val |-> Element_U8]

----------------------------------------------------------------------------
(* Plane geometry *)

PlaneIdx_First == 1
PlaneIdx_Second == 2
PlaneIdx_Third == 3
PLANES == <<PlaneIdx_First, PlaneIdx_Second, PlaneIdx_Third>>

\* PlaneIdx::to_index
to_index(self) == self - 1

\* round_up_div: division by zero panics
round_up_div_swapped(dimension, div) ==
    IF dimension = 0
    THEN [panic |-> TRUE, val |-> 0]
    ELSE [panic |-> FALSE,
          val |-> (div \div dimension) + (IF div % dimension = 0 THEN 0 ELSE 1)]
round_up_div(dimension, div) ==
    IF div = 0
    THEN [panic |-> TRUE, val |-> 0]
    ELSE [panic |-> FALSE,
          val |-> (dimension \div div) + (IF dimension % div = 0 THEN 0 ELSE 1)]

\* DrmFormatInfo::plane_width: Option<u32>, or a panic out of round_up_div
plane_width(self, width, idx) ==
    LET sub == IF self.is_yuv /\ idx # PlaneIdx_First
               THEN round_up_div(width, self.vsub)
               ELSE [panic |-> FALSE, val |-> width]
    IN  IF sub.panic
        THEN [panic |-> TRUE, some |-> FALSE, val |-> 0]
        ELSE LET w == round_up_div(sub.val, self.block_w[to_index(idx)])
             IN  [panic |-> w.panic, some |-> ~w.panic, val |-> w.val]

\* DrmFormatInfo::plane_height
plane_height(self, height, idx) ==
    LET sub == IF self.is_yuv /\ idx # PlaneIdx_First
               THEN round_up_div(height, self.hsub)
               ELSE [panic |-> FALSE, val |-> height]
    IN  IF sub.panic
        THEN [panic |-> TRUE, some |-> FALSE, val |-> 0]
        ELSE LET h == round_up_div(sub.val, self.block_h[to_index(idx)])
             IN  [panic |-> h.panic, some |-> ~h.panic, val |-> h.val]

----------------------------------------------------------------------------
(* DrmLayout::new *)

NoLayout ==
    [info |-> [format |-> PIXEL1_TEMPLATE,
               pitches |-> Arr4(0, 0, 0, 0),
               offsets |-> Arr4(0, 0, 0, 0),
               modifier |-> 0,
               width |-> 0,
               height |-> 0,
               flags |-> 0],
     element |-> Element_U8,
     total_len |-> 0]

ErrResult == [kind |-> "Err", layout |-> NoLayout]
PanicResult == [kind |-> "Panic", layout |-> NoLayout]

\* the modifier gate before the plane loop
modifiers_differ_first_two(info) == info.modifier[1] # info.modifier[0]
modifiers_differ(info) == \E i \in 0..3 : info.modifier[i] # info.modifier[0]

\* the pitch gate of one plane
pitch_too_small_strict(pitch, char_per_line) == pitch + 1 < char_per_line
pitch_too_small(pitch, char_per_line) == pitch < char_per_line

\* the ordering gate of one plane
offset_out_of_order_none(offset, last_plane_end) == FALSE
offset_out_of_order(offset, last_plane_end) == offset < last_plane_end

\* the loop over the planes in use, from plane index idx on
RECURSIVE plane_loop(_, _, _, _)
plane_loop(format_info, info, idx, last_plane_end) ==
    IF idx >= format_info.num_planes
    THEN [kind |-> "Ok", last_plane_end |-> last_plane_end]
    ELSE IF info.modifier[idx] # 0
    THEN [kind |-> "Err", last_plane_end |-> 0]
    ELSE IF format_info.char_per_block[idx] = 0
    THEN [kind |-> "Err", last_plane_end |-> 0]
    ELSE IF format_info.block_w[idx] = 0
    THEN [kind |-> "Err", last_plane_end |-> 0]
    ELSE IF format_info.block_h[idx] = 0
    THEN [kind |-> "Err", last_plane_end |-> 0]
    ELSE IF offset_out_of_order(info.offsets[idx], last_plane_end)
    THEN [kind |-> "Err", last_plane_end |-> 0]
    ELSE
    LET plane == PLANES[idx + 1]
        width == plane_width(format_info, info.width, plane)
        height == plane_height(format_info, info.height, plane)
    IN  IF width.panic
        THEN [kind |-> "Panic", last_plane_end |-> 0]
        ELSE IF ~width.some
        THEN [kind |-> "Err", last_plane_end |-> 0]
        ELSE IF height.panic
        THEN [kind |-> "Panic", last_plane_end |-> 0]
        ELSE IF ~height.some
        THEN [kind |-> "Err", last_plane_end |-> 0]
        ELSE
        LET char_per_line == checked_mul_u32(format_info.char_per_block[idx], width.val)
        IN  IF ~char_per_line.some
            THEN [kind |-> "Err", last_plane_end |-> 0]
            ELSE IF pitch_too_small(info.pitches[idx], char_per_line.val)
            THEN [kind |-> "Err", last_plane_end |-> 0]
            ELSE
            LET char_for_plane == checked_mul_u32(info.pitches[idx], height.val)
            IN  IF ~char_for_plane.some
                THEN [kind |-> "Err", last_plane_end |-> 0]
                ELSE
                LET next_end == checked_add_u32(info.offsets[idx], char_for_plane.val)
                IN  IF ~next_end.some
                    THEN [kind |-> "Err", last_plane_end |-> 0]
                    ELSE plane_loop(format_info, info, idx + 1, next_end.val)

\* the subsampling gates after the plane loop
subsampling_rejected(format_info) ==
    \/ ~format_info.is_yuv /\ (format_info.hsub # 1 \/ format_info.vsub # 1)
    \/ format_info.hsub > 4 \/ ~is_power_of_two(format_info.hsub)
    \/ format_info.vsub > 4 \/ ~is_power_of_two(format_info.vsub)

\* DrmLayout::new after the format lookup: everything from the width check on
new_with_info(format_info, info) ==
    IF ~usize_try_from(info.width).some THEN ErrResult
    ELSE IF ~usize_try_from(info.height).some THEN ErrResult
    ELSE IF format_info.num_planes < 1 \/ format_info.num_planes > 3 THEN ErrResult
    ELSE
    LET element == FourCC_block_element(info.fourcc)
    IN  IF ~element.some THEN ErrResult
        ELSE IF modifiers_differ(info) THEN ErrResult
        ELSE
        LET planes == plane_loop(format_info, info, 0, 0)
        IN  IF planes.kind = "Err" THEN ErrResult
            ELSE IF planes.kind = "Panic" THEN PanicResult
            ELSE
            LET total_len == usize_try_from(planes.last_plane_end)
            IN  IF ~total_len.some THEN ErrResult
                ELSE IF subsampling_rejected(format_info) THEN ErrResult
                ELSE [kind |-> "Ok",
                      layout |->
                        [info |-> [format |-> format_info,
                                   pitches |-> info.pitches,
                                   offsets |-> info.offsets,
                                   modifier |-> info.modifier[0],
                                   width |-> info.width,
                                   height |-> info.height,
                                   flags |-> 0],
                         element |-> element.val,
                         total_len |-> total_len.val]]

\* DrmLayout::new
DrmLayout_new(info) ==
    LET format_info == FourCC_info(info.fourcc)
    IN  IF ~format_info.ok THEN ErrResult
        ELSE new_with_info(format_info.info, info)

\* <DrmLayout as Layout>::byte_len
DrmLayout_byte_len_no_offset(self) == self.info.pitches[0] * self.info.height
DrmLayout_byte_len(self) == self.total_len

----------------------------------------------------------------------------
(* DrmLayout::plane and PlaneLayout *)

NoPlane ==
    [format |-> [format |-> FourCC_INVALID, char_per_block |-> 0, block_w |-> 0,
                 block_h |-> 0, hsub |-> 0, vsub |-> 0,
                 has_alpha |-> FALSE, is_yuv |-> FALSE],
     pitch |-> 0, offset |-> 0, modifier |-> 0, width |-> 0, height |-> 0]

\* DrmLayout::plane: Some(PlaneLayout), None, or a panic out of unwrap
DrmLayout_plane_shifted(self, plane_idx) ==
    LET idx == to_index(plane_idx)
        next == (idx + 1) % 4
    IN  IF self.info.format.char_per_block[next] = 0
        THEN [kind |-> "None", plane |-> NoPlane]
        ELSE [kind |-> "Some",
              plane |-> [NoPlane EXCEPT !.pitch = self.info.pitches[next],
                                        !.offset = self.info.offsets[next]]]
DrmLayout_plane(self, plane_idx) ==
    LET idx == to_index(plane_idx)
    IN  IF \/ self.info.format.char_per_block[idx] = 0
           \/ self.info.format.block_w[idx] = 0
           \/ self.info.format.block_h[idx] = 0
        THEN [kind |-> "None", plane |-> NoPlane]
        ELSE
        LET width == plane_width(self.info.format, self.info.width, plane_idx)
            height == plane_height(self.info.format, self.info.height, plane_idx)
        IN  IF width.panic \/ ~width.some \/ height.panic \/ ~height.some
            THEN [kind |-> "Panic", plane |-> NoPlane]
            ELSE [kind |-> "Some",
                  plane |->
                    [format |-> [format |-> self.info.format.format,
                                 char_per_block |-> self.info.format.char_per_block[idx],
                                 block_w |-> self.info.format.block_w[idx],
                                 block_h |-> self.info.format.block_h[idx],
                                 hsub |-> self.info.format.hsub,
                                 vsub |-> self.info.format.vsub,
                                 has_alpha |-> self.info.format.has_alpha,
                                 is_yuv |-> self.info.format.is_yuv],
                     pitch |-> self.info.pitches[idx],
                     offset |-> self.info.offsets[idx],
                     modifier |-> self.info.modifier,
                     width |-> width.val,
                     height |-> height.val]]

\* PlaneLayout::byte_range: start and end, or an overflow of the unchecked
\* usize arithmetic
PlaneLayout_byte_range_of_width(self) ==
    LET start == self.offset
        len == mul_usize(self.width, self.pitch)
        end == add_usize(start, len.val)
    IN  [overflow |-> len.overflow \/ end.overflow, start |-> start, end |-> end.val]
PlaneLayout_byte_range(self) ==
    LET start == self.offset
        len == mul_usize(self.height, self.pitch)
        end == add_usize(start, len.val)
    IN  [overflow |-> len.overflow \/ end.overflow, start |-> start, end |-> end.val]

\* Layout::byte_len for PlaneLayout
PlaneLayout_byte_len(self) == PlaneLayout_byte_range(self).end

----------------------------------------------------------------------------
(* Inputs *)

\* an unregistered code: "AR24"
FourCC_AR24 == FourCC_from(<<65, 82, 50, 52>>)

Registered ==
    {FourCC_C8, FourCC_RGB332, FourCC_BGR332,
     FourCC_XRGB444, FourCC_XBGR444, FourCC_RGBX444, FourCC_BGRX444}
FourCCs == Registered \cup {FourCC_INVALID, FourCC_AR24}

Widths == {0, 1, 4, (U32_MAX + 1) \div 2, U32_MAX}
Heights == {0, 1, 2, U32_MAX}
Pitches == {0, 3, 4, (U32_MAX + 1) \div 2, U32_MAX}
Offsets == {0, 1, (U32_MAX + 1) \div 2}
\* values of the array slots behind the only plane of the registered formats
Rest == {0, 5}
ModifierVals == {0, 1, 2}
Modifiers == [0..3 -> ModifierVals]

DrmFramebufferCmd(w, h, f, p, o, r, m) ==
    [width |-> w, height |-> h, fourcc |-> f, flags |-> 0,
     pitches |-> Arr4(p, r, r, r), offsets |-> Arr4(o, r, r, r), modifier |-> m]

NoQuery == [idx |-> 0, kind |-> "none", plane |-> NoPlane]
NoPlaneLen == [kind |-> "none", start |-> 0, end |-> 0]
NoMatIn == [element |-> Element_U8, first_dim |-> 0, second_dim |-> 0]
NoMatrix == [element |-> Element_U8, first_dim |-> 0, second_dim |-> 0]
NoMatRes == [kind |-> "none", matrix |-> NoMatrix]
NoMatLen == [kind |-> "none", byte_len |-> 0, len |-> 0]

\* no layout of the layout algebra is under construction
MatIdle ==
    /\ matin = NoMatIn
    /\ matres = NoMatRes
    /\ matlen = NoMatLen

NoYuv == [channel |-> Element_U8, width |-> 0, height |-> 0]
NoYuvRes == [kind |-> "none", yuv |-> NoYuv]
NoYuvLen == [kind |-> "none", byte_len |-> 0]

\* no Yuv420p is under construction
YuvIdle ==
    /\ yuvin = NoYuv
    /\ yuvres = NoYuvRes
    /\ yuvlen = NoYuvLen

\* pixel witnesses of pixel.rs, by size and alignment of their type
Pixel_EMPTY == [size |-> 0, align |-> 1]
Pixel_U8 == [size |-> 1, align |-> 1]
Pixel_U16 == [size |-> 2, align |-> 2]
Pixel_U32 == [size |-> 4, align |-> 4]
Pixel_U64 == [size |-> 8, align |-> 8]
Pixel_RGB == [size |-> 3, align |-> 1]
Pixel_RGBA == [size |-> 4, align |-> 1]
Pixel_MAX == [size |-> 16, align |-> 16]

NoTMatrix == [pixel |-> Pixel_U8, first_dim |-> 0, second_dim |-> 0]
NoMend == [kind |-> "none", tmatrix |-> NoTMatrix, from |-> NoMatrix]
NoDecay == [kind |-> "none", from |-> NoTMatrix, matrix |-> NoMatrix]
NoBytes == [kind |-> "none", from |-> "none", len |-> 0]
NoTake == [kind |-> "none", before |-> 0, ret |-> 0]
NoDyn == [kind |-> "none", matrix |-> NoMatrix, yuv |-> NoYuv]
NoLen == [kind |-> "none", len |-> 0]

\* no layout is being converted or taken
AlgIdle ==
    /\ matrix = NoMatrix
    /\ pixel = Pixel_U8
    /\ tmatrix = NoMend
    /\ decayed = NoDecay
    /\ mended = NoMend
    /\ blayout = NoBytes
    /\ taken = NoTake
    /\ dyn = NoDyn
    /\ slen = NoLen

Slots == {"a", "b"}
NoElement == [kind |-> "none", element |-> Element_U8]
NoOp == [op |-> "none", size |-> 0, align |-> 0, kind |-> "none", val |-> 0]

\* no Element has been built
ElemIdle ==
    /\ elems = [r \in Slots |-> NoElement]
    /\ eop = NoOp

NoCastIn == [addr |-> 0, len |-> 0, pix |-> Pixel_U8, mutable |-> FALSE]
NoBuf == [kind |-> "none", addr |-> 0, len |-> 0]
NoSlice == [kind |-> "none", addr |-> 0, count |-> 0]

\* no buffer is being cast
CastIdle ==
    /\ castin = NoCastIn
    /\ abuf = NoBuf
    /\ pslice = NoSlice
    /\ pbytes = NoBuf
    /\ rbuf = NoBuf
    /\ rslice = NoSlice

\* the three Elements of the order laws
Trio == {"a", "b", "c"}
NoTrio == [x \in Trio |-> Element_U8]
NoOrdTab == [kind |-> "none", cmp |-> [x \in Trio, y \in Trio |-> "none"]]
NoMeets ==
    [kind |-> "none", ab |-> Element_U8, c_ab |-> "none",
     ab_c |-> Element_U8, a_bc |-> Element_U8]

\* no Elements are being compared
OrdIdle ==
    /\ trio = NoTrio
    /\ ordtab = NoOrdTab
    /\ meets = NoMeets

\* nothing but the frame-buffer state is in use
NonDrmIdle == MatIdle /\ YuvIdle /\ AlgIdle /\ ElemIdle /\ CastIdle /\ OrdIdle

----------------------------------------------------------------------------
(* The constructor over the registered formats *)

Init ==
    /\ \E w \in Widths, h \in Heights, f \in FourCCs, p \in Pitches, o \in Offsets,
          r \in Rest, m \in Modifiers :
            cmd = DrmFramebufferCmd(w, h, f, p, o, r, m)
    /\ fmt = PIXEL1_TEMPLATE
    /\ res = "none"
    /\ layout = NoLayout
    /\ planeq = NoQuery
    /\ planelen = NoPlaneLen
    /\ NonDrmIdle

\* DrmLayout::new(&cmd)
New ==
    /\ res = "none"
    /\ LET r == DrmLayout_new(cmd)
       IN  /\ res' = r.kind
           /\ layout' = r.layout
    /\ fmt' = FourCC_info(cmd.fourcc).info
    /\ UNCHANGED <<cmd, planeq, planelen, nondrm>>

\* layout.plane(idx) on a constructed layout
Plane ==
    /\ res = "Ok"
    /\ planeq.kind = "none"
    /\ \E plane_idx \in {PlaneIdx_First, PlaneIdx_Second, PlaneIdx_Third} :
         LET r == DrmLayout_plane(layout, plane_idx)
         IN  planeq' = [idx |-> plane_idx, kind |-> r.kind, plane |-> r.plane]
    /\ UNCHANGED <<cmd, fmt, res, layout, planelen, nondrm>>

\* plane.byte_len() on the PlaneLayout of the last query
PlaneByteLen ==
    /\ planeq.kind = "Some"
    /\ planelen.kind = "none"
    /\ LET range == PlaneLayout_byte_range(planeq.plane)
       IN  planelen' = [kind |-> IF range.overflow THEN "Overflow" ELSE "Ok",
                        start |-> range.start,
                        end |-> PlaneLayout_byte_len(planeq.plane)]
    /\ UNCHANGED <<cmd, fmt, res, layout, planeq, nondrm>>

Next == New \/ Plane \/ PlaneByteLen

Spec == Init /\ [][Next]_vars

----------------------------------------------------------------------------
(* Claims about DrmLayout::new over the registered formats (Spec) *)

\* the planes in use of a format info, as array indices
PlanesInUse(format_info) == {idx \in 0..3 : idx < format_info.num_planes}
LastPlane(format_info) == format_info.num_planes - 1

\* exact (unbounded) row bytes, plane bytes and plane end of plane idx of a command
RowBytes(format_info, info, idx) ==
    format_info.char_per_block[idx] * plane_width(format_info, info.width, idx + 1).val
PlaneBytes(format_info, info, idx) ==
    info.pitches[idx] * plane_height(format_info, info.height, idx + 1).val
PlaneEnd(format_info, info, idx) ==
    info.offsets[idx] + PlaneBytes(format_info, info, idx)

ZeroModifiers == \A i \in 0..3 : cmd.modifier[i] = 0

\* C1: a command whose pitch is below char_per_block * plane_width for some
\* plane in use is rejected, and every constructed layout has
\* pitches[idx] >= char_per_block[idx] * plane_width(idx) on its planes in use.
C1_PitchCoversRow ==
    /\ (/\ res # "none"
        /\ \E idx \in PlanesInUse(fmt) : cmd.pitches[idx] < RowBytes(fmt, cmd, idx))
       => res = "Err"
    /\ res = "Ok" =>
         \A idx \in PlanesInUse(layout.info.format) :
            layout.info.pitches[idx] >=
                layout.info.format.char_per_block[idx]
                    * plane_width(layout.info.format, layout.info.width, idx + 1).val

\* C8 4x2 with pitch 3 has been rejected
C1_Witness ==
    /\ res = "Err"
    /\ cmd.fourcc = FourCC_C8 /\ cmd.width = 4 /\ cmd.height = 2
    /\ cmd.pitches[0] = 3 /\ cmd.offsets[0] = 0 /\ ZeroModifiers

\* C2: byte_len() of a constructed layout is the end of its last plane in use,
\* offsets[last] + pitches[last] * plane_height(last); C8 4x2 with pitch 4 at
\* offset 0 and zero modifiers is accepted with byte_len() = 8.
C2_ByteLenIsLastPlaneEnd ==
    /\ res = "Ok" =>
         DrmLayout_byte_len(layout) =
            PlaneEnd(layout.info.format,
                     [width |-> layout.info.width, height |-> layout.info.height,
                      pitches |-> layout.info.pitches, offsets |-> layout.info.offsets],
                     LastPlane(layout.info.format))
    /\ (/\ res # "none"
        /\ cmd.fourcc = FourCC_C8 /\ cmd.width = 4 /\ cmd.height = 2
        /\ cmd.pitches[0] = 4 /\ cmd.offsets[0] = 0 /\ ZeroModifiers)
       => res = "Ok" /\ DrmLayout_byte_len(layout) = 8

C2_Witness ==
    /\ res = "Ok" /\ DrmLayout_byte_len(layout) = 8
    /\ cmd.fourcc = FourCC_C8 /\ cmd.width = 4 /\ cmd.height = 2
    /\ cmd.pitches[0] = 4 /\ cmd.offsets[0] = 0

\* C3: the constructor fails unless the four modifier slots are equal, and
\* fails unless the modifier of every plane in use is 0; a layout is built only
\* when all four modifier slots are 0.
C3_ModifiersAllZero ==
    /\ (res # "none" /\ \E i, j \in 0..3 : cmd.modifier[i] # cmd.modifier[j])
       => res = "Err"
    /\ (res # "none" /\ \E idx \in PlanesInUse(fmt) : cmd.modifier[idx] # 0)
       => res = "Err"
    /\ res = "Ok" => ZeroModifiers /\ layout.info.modifier = 0

\* XR12 with mismatched non-zero modifiers, everything else in order, rejected
C3_Witness ==
    /\ res = "Err"
    /\ cmd.fourcc = FourCC_XRGB444 /\ cmd.width = 1 /\ cmd.height = 1
    /\ cmd.pitches[0] = 4 /\ cmd.offsets[0] = 0
    /\ cmd.modifier = Arr4(1, 2, 1, 1)

\* C4: a command whose FourCC is not one of the registered codes is rejected
\* whatever its other fields, and FourCC::info and FourCC::block_element
\* succeed on exactly the registered codes.
C4_UnregisteredRejected ==
    /\ (res # "none" /\ cmd.fourcc \notin Registered) => res = "Err"
    /\ FourCC_info(cmd.fourcc).ok <=> cmd.fourcc \in Registered
    /\ FourCC_block_element(cmd.fourcc).some <=> cmd.fourcc \in Registered

\* FourCC::INVALID with an otherwise acceptable command has been rejected
C4_Witness ==
    /\ res = "Err"
    /\ cmd.fourcc = FourCC_INVALID /\ cmd.width = 4 /\ cmd.height = 2
    /\ cmd.pitches[0] = 4 /\ cmd.offsets[0] = 0 /\ ZeroModifiers

\* C6: when char_per_block * plane_width, pitch * plane_height or
\* offset + pitch * plane_height of a plane in use exceeds the u32 maximum the
\* constructor fails, and the length of a constructed layout is the exact sum,
\* never a wrapped one.
C6_OverflowChecked ==
    /\ (/\ res # "none"
        /\ \E idx \in PlanesInUse(fmt) :
              \/ RowBytes(fmt, cmd, idx) > U32_MAX
              \/ PlaneBytes(fmt, cmd, idx) > U32_MAX
              \/ PlaneEnd(fmt, cmd, idx) > U32_MAX)
       => res = "Err"
    /\ res = "Ok" =>
         /\ \A idx \in PlanesInUse(fmt) :
              /\ RowBytes(fmt, cmd, idx) <= U32_MAX
              /\ PlaneEnd(fmt, cmd, idx) <= layout.total_len
         /\ layout.total_len <= U32_MAX
         /\ layout.total_len = PlaneEnd(fmt, cmd, LastPlane(fmt))

\* a command rejected only because pitch * plane_height overflows
C6_Witness ==
    /\ res = "Err"
    /\ cmd.fourcc \in Registered /\ ZeroModifiers
    /\ cmd.pitches[0] >= RowBytes(fmt, cmd, 0)
    /\ RowBytes(fmt, cmd, 0) <= U32_MAX
    /\ cmd.offsets[0] = 0
    /\ PlaneBytes(fmt, cmd, 0) > U32_MAX

----------------------------------------------------------------------------
(* The validation over format infos beyond the registered table (SpecInfo) *)

\* a DrmFormatInfo with np planes declared, its first pop slots populated with
\* char_per_block c and bw x bh blocks, and field zero cleared in the others
DrmFormatInfo(f, np, pop, zero, c, bw, bh, hs, vs, yuv) ==
    [format |-> f,
     num_planes |-> np,
     char_per_block |-> [i \in 0..3 |-> IF i >= pop /\ zero = "char_per_block" THEN 0 ELSE c],
     block_w |-> [i \in 0..3 |-> IF i >= pop /\ zero = "block_w" THEN 0 ELSE bw],
     block_h |-> [i \in 0..3 |-> IF i >= pop /\ zero = "block_h" THEN 0 ELSE bh],
     hsub |-> hs,
     vsub |-> vs,
     has_alpha |-> FALSE,
     is_yuv |-> yuv]

ZeroMods == Arr4(0, 0, 0, 0)

\* multi-plane formats with valid subsampling, planes placed anywhere
PlaneOffsets == {0, 2, 4, 8}
PlanePitches == {2, 4}
InitPlanes ==
    \E np \in 1..3, yuv \in BOOLEAN, hs \in {1, 2}, vs \in {1, 2},
       bw \in {1, 2}, bh \in {1, 2}, w \in {2, 4}, h \in {1, 2, 4},
       p0 \in PlanePitches, p1 \in PlanePitches, p2 \in PlanePitches,
       o0 \in PlaneOffsets, o1 \in PlaneOffsets, o2 \in PlaneOffsets :
        /\ fmt = DrmFormatInfo(FourCC_C8, np, np, "char_per_block", 1, bw, bh, hs, vs, yuv)
        /\ cmd = [width |-> w, height |-> h, fourcc |-> FourCC_C8, flags |-> 0,
                  pitches |-> Arr4(p0, p1, p2, 0), offsets |-> Arr4(o0, o1, o2, 0),
                  modifier |-> ZeroMods]

\* any plane count and any subsampling, planes stacked in order
SubVals == {0, 1, 2, 3, 4, 8}
InitSubsampling ==
    \E np \in 0..4, pop \in 0..4, zero \in {"char_per_block", "block_w", "block_h"},
       yuv \in BOOLEAN, hs \in SubVals, vs \in SubVals,
       w \in {0, 2}, h \in {0, 2}, f \in {FourCC_C8, FourCC_XRGB444, FourCC_AR24} :
        /\ pop \in {0, np, 4}
        /\ fmt = DrmFormatInfo(f, np, pop, zero, 1, 1, 1, hs, vs, yuv)
        /\ cmd = [width |-> w, height |-> h, fourcc |-> f, flags |-> 0,
                  pitches |-> Arr4(2, 2, 2, 2), offsets |-> Arr4(0, 4, 8, 12),
                  modifier |-> ZeroMods]

\* the registered table
InitTable ==
    \E w \in Widths, h \in Heights, f \in Registered, p \in Pitches, o \in Offsets,
       r \in Rest :
        /\ fmt = FourCC_info(f).info
        /\ cmd = DrmFramebufferCmd(w, h, f, p, o, r, ZeroMods)

InitInfo ==
    /\ InitPlanes \/ InitSubsampling \/ InitTable
    /\ res = "none"
    /\ layout = NoLayout
    /\ planeq = NoQuery
    /\ planelen = NoPlaneLen
    /\ NonDrmIdle

\* the body of DrmLayout::new run against the format info fmt
Validate ==
    /\ res = "none"
    /\ LET r == new_with_info(fmt, cmd)
       IN  /\ res' = r.kind
           /\ layout' = r.layout
    /\ UNCHANGED <<cmd, fmt, planeq, planelen, nondrm>>

NextInfo == Validate \/ Plane \/ PlaneByteLen

SpecInfo == InitInfo /\ [][NextInfo]_vars

----------------------------------------------------------------------------
(* Claims about the validation over any format info (SpecInfo) *)

\* every gate of the validation other than plane order and overflow passes
OtherGatesPass ==
    /\ fmt.num_planes \in 1..3
    /\ FourCC_block_element(cmd.fourcc).some
    /\ ZeroModifiers
    /\ ~subsampling_rejected(fmt)
    /\ \A idx \in PlanesInUse(fmt) :
         /\ fmt.char_per_block[idx] # 0 /\ fmt.block_w[idx] # 0 /\ fmt.block_h[idx] # 0
         /\ cmd.pitches[idx] >= RowBytes(fmt, cmd, idx)
         /\ PlaneEnd(fmt, cmd, idx) <= U32_MAX

\* C5: for a format info with 1..=3 planes a command is accepted only if every
\* plane i > 0 in use starts at or after the end of plane i-1,
\* offsets[i] >= offsets[i-1] + pitches[i-1] * plane_height(i-1); the byte ranges
\* of the planes of an accepted layout are pairwise disjoint and in index order,
\* and planes declared out of offset order are rejected even without overlap.
C5_PlanesInOrder ==
    /\ res = "Ok" =>
         /\ \A i \in PlanesInUse(fmt) :
              i > 0 => cmd.offsets[i] >= PlaneEnd(fmt, cmd, i - 1)
         /\ \A i, j \in PlanesInUse(fmt) :
              i < j => PlaneEnd(fmt, cmd, i) <= cmd.offsets[j]
    /\ (/\ res # "none"
        /\ OtherGatesPass
        /\ \E i \in PlanesInUse(fmt) :
              i > 0 /\ cmd.offsets[i] < PlaneEnd(fmt, cmd, i - 1))
       => res = "Err"

\* two planes that do not overlap but are declared in decreasing offset order,
\* every other gate passing, have been rejected
C5_Witness ==
    /\ res = "Err"
    /\ fmt.num_planes = 2
    /\ OtherGatesPass
    /\ PlaneBytes(fmt, cmd, 0) > 0 /\ PlaneBytes(fmt, cmd, 1) > 0
    /\ PlaneEnd(fmt, cmd, 1) <= cmd.offsets[0]

ClaimedPlaneWidth(format_info, width, idx) ==
    LET sub == IF format_info.is_yuv /\ idx # PlaneIdx_First
               THEN (width + format_info.hsub - 1) \div format_info.hsub
               ELSE width
        bw == format_info.block_w[to_index(idx)]
    IN  (sub + bw - 1) \div bw
ClaimedPlaneHeight(format_info, height, idx) ==
    LET sub == IF format_info.is_yuv /\ idx # PlaneIdx_First
               THEN (height + format_info.vsub - 1) \div format_info.vsub
               ELSE height
        bh == format_info.block_h[to_index(idx)]
    IN  (sub + bh - 1) \div bh

\* C8 as claimed: a plane after the first of a YUV format is
\* ceil(ceil(width / hsub) / block_w) wide and ceil(ceil(height / vsub) / block_h)
\* high; the first plane and every plane of a non-YUV format is
\* ceil(width / block_w) wide and ceil(height / block_h) high.
C8_PlaneGeometry ==
    planeq.kind = "Some" =>
        /\ planeq.plane.width =
              ClaimedPlaneWidth(layout.info.format, layout.info.width, planeq.idx)
        /\ planeq.plane.height =
              ClaimedPlaneHeight(layout.info.format, layout.info.height, planeq.idx)

\* C9: on a constructed layout plane(idx) is Some for every plane index below
\* num_planes, with the pitch, offset, width and height the constructor
\* validated; it is None exactly for the slots whose char_per_block, block_w or
\* block_h is zero, and it never panics.
C9_PlaneQuery ==
    planeq.kind # "none" =>
        LET idx == to_index(planeq.idx)
        IN  /\ planeq.kind # "Panic"
            /\ idx < fmt.num_planes =>
                 /\ planeq.kind = "Some"
                 /\ planeq.plane.pitch = cmd.pitches[idx]
                 /\ planeq.plane.offset = cmd.offsets[idx]
                 /\ planeq.plane.width = plane_width(fmt, cmd.width, planeq.idx).val
                 /\ planeq.plane.height = plane_height(fmt, cmd.height, planeq.idx).val
                 /\ planeq.plane.pitch >= fmt.char_per_block[idx] * planeq.plane.width
                 /\ planeq.plane.offset + planeq.plane.pitch * planeq.plane.height
                        <= DrmLayout_byte_len(layout)
            /\ planeq.kind = "None" <=>
                 \/ fmt.char_per_block[idx] = 0
                 \/ fmt.block_w[idx] = 0
                 \/ fmt.block_h[idx] = 0

\* the second plane of a constructed two- or three-plane layout has been queried
C9_Witness ==
    /\ planeq.kind = "Some"
    /\ planeq.idx = PlaneIdx_Second
    /\ fmt.num_planes >= 2
    /\ planeq.plane.offset > 0

----------------------------------------------------------------------------
(* Matrix (SpecMatrix) *)

\* usize::checked_mul
checked_mul_usize(a, b) == IF a * b > USIZE_MAX THEN None ELSE Some(a * b)

\* pixel::MAX_ALIGN
MAX_ALIGN == 16

\* Element::MAX_SIZE: isize::MAX bytes, alignment 1
Element_MAX_SIZE == [size |-> (USIZE_MAX + 1) \div 2 - 1, align |-> 1]

\* Matrix::from_width_height
Matrix_from_width_height_unchecked(element, first_dim, second_dim) ==
    [kind |-> "Some",
     matrix |-> [element |-> element, first_dim |-> first_dim, second_dim |-> second_dim]]
Matrix_from_width_height(element, first_dim, second_dim) ==
    LET max_index == checked_mul_usize(first_dim, second_dim)
    IN  IF ~max_index.some
        THEN [kind |-> "None", matrix |-> NoMatrix]
        ELSE IF ~checked_mul_usize(max_index.val, element.size).some
        THEN [kind |-> "None", matrix |-> NoMatrix]
        ELSE [kind |-> "Some",
              matrix |-> [element |-> element,
                          first_dim |-> first_dim,
                          second_dim |-> second_dim]]

\* Matrix::len
Matrix_len(self) == mul_usize(self.first_dim, self.second_dim)

\* Matrix::byte_len
Matrix_byte_len(self) ==
    LET len == Matrix_len(self)
        bytes == mul_usize(self.element.size, len.val)
    IN  [overflow |-> len.overflow \/ bytes.overflow, val |-> bytes.val]

\* element sizes and alignments an Element can hold
Elements ==
    {e \in [size : {0, 1, 2, 3, 4, 6, 8, 16}, align : {1, 2, 4, 8, 16, 32}] :
        e.align <= MAX_ALIGN /\ e.size % e.align = 0}
    \cup {Element_MAX_SIZE}

MatDims == 0..USIZE_MAX

\* no frame buffer is under construction
DrmIdle ==
    /\ cmd = DrmFramebufferCmd(0, 0, FourCC_INVALID, 0, 0, 0, ZeroMods)
    /\ fmt = PIXEL1_TEMPLATE
    /\ res = "none"
    /\ layout = NoLayout
    /\ planeq = NoQuery
    /\ planelen = NoPlaneLen

InitMatrix ==
    /\ DrmIdle
    /\ OrdIdle
    /\ CastIdle
    /\ ElemIdle
    /\ AlgIdle
    /\ YuvIdle
    /\ \E e \in Elements, w \in MatDims, h \in MatDims :
         matin = [element |-> e, first_dim |-> w, second_dim |-> h]
    /\ matres = NoMatRes
    /\ matlen = NoMatLen

\* Matrix::from_width_height(element, first_dim, second_dim)
FromWidthHeight ==
    /\ matres.kind = "none"
    /\ matres' = Matrix_from_width_height(matin.element, matin.first_dim, matin.second_dim)
    /\ UNCHANGED <<drmvars, matin, matlen, yuvvars, algvars, elemvars, castvars, ordvars>>

\* matrix.byte_len() and matrix.len() on a constructed Matrix
MatrixLen ==
    /\ matres.kind = "Some"
    /\ matlen.kind = "none"
    /\ LET bytes == Matrix_byte_len(matres.matrix)
           len == Matrix_len(matres.matrix)
       IN  matlen' = [kind |-> IF bytes.overflow \/ len.overflow THEN "Overflow" ELSE "Ok",
                      byte_len |-> bytes.val,
                      len |-> len.val]
    /\ UNCHANGED <<drmvars, matin, matres, yuvvars, algvars, elemvars, castvars, ordvars>>

NextMatrix == FromWidthHeight \/ MatrixLen

SpecMatrix == InitMatrix /\ [][NextMatrix]_vars

\* C10: Matrix::from_width_height(e, w, h) returns a value if and only if
\* neither w * h nor (w * h) * e.size exceeds the usize maximum; on a Matrix so
\* constructed byte_len() is e.size * w * h computed without overflow and
\* len() is w * h.
C10_MatrixFitsUsize ==
    /\ matres.kind # "none" =>
         (matres.kind = "Some" <=>
            /\ matin.first_dim * matin.second_dim <= USIZE_MAX
            /\ matin.first_dim * matin.second_dim * matin.element.size <= USIZE_MAX)
    /\ matres.kind = "Some" =>
         /\ matres.matrix.element = matin.element
         /\ matres.matrix.first_dim = matin.first_dim
         /\ matres.matrix.second_dim = matin.second_dim
    /\ matlen.kind # "none" =>
         /\ matlen.kind = "Ok"
         /\ matlen.byte_len = matin.element.size * matin.first_dim * matin.second_dim
         /\ matlen.len = matin.first_dim * matin.second_dim

\* a Matrix of more than one element of more than one byte has been measured,
\* and one more row would not have fit
C10_Witness ==
    /\ matlen.kind = "Ok"
    /\ matin.element.size > 1 /\ matin.first_dim > 1 /\ matin.second_dim > 1
    /\ matin.first_dim * (matin.second_dim + 1) * matin.element.size > USIZE_MAX

----------------------------------------------------------------------------
(* Yuv420p (SpecYuv) *)

\* usize::checked_add
checked_add_usize(a, b) == IF a + b > USIZE_MAX THEN None ELSE Some(a + b)

\* Yuv420p::from_width_height
Yuv420p_from_width_height_unsized(channel, width, height) ==
    IF width % 2 # 0 \/ height % 2 # 0
    THEN [kind |-> "None", yuv |-> NoYuv]
    ELSE IF ~checked_mul_usize(width, height).some
    THEN [kind |-> "None", yuv |-> NoYuv]
    ELSE [kind |-> "Some",
          yuv |-> [channel |-> channel, width |-> width, height |-> height]]
Yuv420p_from_width_height(channel, width, height) ==
    IF width % 2 # 0 \/ height % 2 # 0
    THEN [kind |-> "None", yuv |-> NoYuv]
    ELSE
    LET mwidth == usize_try_from(width)
        mheight == usize_try_from(height)
    IN  IF ~mwidth.some THEN [kind |-> "None", yuv |-> NoYuv]
        ELSE IF ~mheight.some THEN [kind |-> "None", yuv |-> NoYuv]
        ELSE
        LET y_count == checked_mul_usize(mwidth.val, mheight.val)
        IN  IF ~y_count.some THEN [kind |-> "None", yuv |-> NoYuv]
            ELSE
            LET uv_count == y_count.val \div 2
                count == checked_add_usize(y_count.val, uv_count)
            IN  IF ~count.some THEN [kind |-> "None", yuv |-> NoYuv]
                ELSE IF ~checked_mul_usize(count.val, channel.size).some
                THEN [kind |-> "None", yuv |-> NoYuv]
                ELSE [kind |-> "Some",
                      yuv |-> [channel |-> channel, width |-> width, height |-> height]]

\* Yuv420p::byte_len
Yuv420p_byte_len(self) ==
    LET pixels == mul_usize(self.width, self.height)
        ylen == mul_usize(pixels.val, self.channel.size)
        total == add_usize(ylen.val, ylen.val \div 2)
    IN  [overflow |-> pixels.overflow \/ ylen.overflow \/ total.overflow,
         val |-> total.val]

YuvDims == 0..U32_MAX

InitYuv ==
    /\ DrmIdle
    /\ OrdIdle
    /\ CastIdle
    /\ ElemIdle
    /\ AlgIdle
    /\ MatIdle
    /\ \E e \in Elements, w \in YuvDims, h \in YuvDims :
         yuvin = [channel |-> e, width |-> w, height |-> h]
    /\ yuvres = NoYuvRes
    /\ yuvlen = NoYuvLen

\* Yuv420p::from_width_height(channel, width, height)
YuvFromWidthHeight ==
    /\ yuvres.kind = "none"
    /\ yuvres' = Yuv420p_from_width_height(yuvin.channel, yuvin.width, yuvin.height)
    /\ UNCHANGED <<drmvars, matvars, yuvin, yuvlen, algvars, elemvars, castvars, ordvars>>

\* yuv.byte_len() on a constructed Yuv420p
YuvByteLen ==
    /\ yuvres.kind = "Some"
    /\ yuvlen.kind = "none"
    /\ LET bytes == Yuv420p_byte_len(yuvres.yuv)
       IN  yuvlen' = [kind |-> IF bytes.overflow THEN "Overflow" ELSE "Ok",
                      byte_len |-> bytes.val]
    /\ UNCHANGED <<drmvars, matvars, yuvin, yuvres, algvars, elemvars, castvars, ordvars>>

NextYuv == YuvFromWidthHeight \/ YuvByteLen

SpecYuv == InitYuv /\ [][NextYuv]_vars

\* C11: Yuv420p::from_width_height(e, w, h) fails when w or h is odd and when
\* w * h, w * h + (w * h) / 2 or (w * h + (w * h) / 2) * e.size overflows usize;
\* on a Yuv420p so constructed byte_len() is w*h*e.size + (w*h*e.size)/2 and
\* computing it does not overflow.
C11_Yuv420pLength ==
    LET y == yuvin.width * yuvin.height
    IN  /\ (yuvres.kind # "none" /\ (yuvin.width % 2 = 1 \/ yuvin.height % 2 = 1))
           => yuvres.kind = "None"
        /\ (/\ yuvres.kind # "none"
            /\ \/ y > USIZE_MAX
               \/ y + y \div 2 > USIZE_MAX
               \/ (y + y \div 2) * yuvin.channel.size > USIZE_MAX)
           => yuvres.kind = "None"
        /\ yuvres.kind = "Some" => yuvres.yuv = yuvin
        /\ yuvlen.kind # "none" =>
             /\ yuvlen.kind = "Ok"
             /\ yuvlen.byte_len =
                  y * yuvin.channel.size + (y * yuvin.channel.size) \div 2

\* a Yuv420p of several pixels of more than one byte has been measured, its
\* length within a third of the usize maximum
C11_Witness ==
    /\ yuvlen.kind = "Ok"
    /\ yuvin.width > 0 /\ yuvin.height > 2 /\ yuvin.channel.size > 1
    /\ 3 * yuvlen.byte_len > 2 * USIZE_MAX

----------------------------------------------------------------------------
(* Conversions of the layout algebra: TryMend, Decay, Take (SpecAlgebra) *)

\* Pixel::size
Pixel_size(self) == self.size

\* Pixel::align
Pixel_align(self) == self.align

\* From<Pixel<P>> for Element
Element_from(pix) == [size |-> Pixel_size(pix), align |-> Pixel_align(pix)]

\* Matrix::empty
Matrix_empty(element) == [element |-> element, first_dim |-> 0, second_dim |-> 0]

\* TMatrix::empty
TMatrix_empty(pix) == [pixel |-> pix, first_dim |-> 0, second_dim |-> 0]

\* TMatrix::with_matrix
TMatrix_with_matrix_same_element(pix, mat) ==
    IF Element_from(pix) = mat.element
    THEN [kind |-> "Some",
          tmatrix |-> [pixel |-> pix,
                       first_dim |-> mat.first_dim,
                       second_dim |-> mat.second_dim]]
    ELSE [kind |-> "None", tmatrix |-> NoTMatrix]
TMatrix_with_matrix(pix, mat) ==
    IF Pixel_size(pix) = mat.element.size
    THEN [kind |-> "Some",
          tmatrix |-> [pixel |-> pix,
                       first_dim |-> mat.first_dim,
                       second_dim |-> mat.second_dim]]
    ELSE [kind |-> "None", tmatrix |-> NoTMatrix]

\* TMatrix::into_matrix
TMatrix_into_matrix_transposed(self) ==
    [element |-> Element_from(self.pixel),
     first_dim |-> self.second_dim,
     second_dim |-> self.first_dim]
TMatrix_into_matrix(self) ==
    [element |-> Element_from(self.pixel),
     first_dim |-> self.first_dim,
     second_dim |-> self.second_dim]

\* Layout::byte_len for TMatrix<P>
TMatrix_byte_len(self) == Matrix_byte_len(TMatrix_into_matrix(self))

\* Decay<TMatrix<P>> for Matrix
Matrix_decay(from) == TMatrix_into_matrix(from)

\* Layout::byte_len for Bytes
Bytes_byte_len(self) == self

\* Decay<T> for Bytes, of a Matrix
Bytes_decay(from) == Matrix_byte_len(from).val

\* Decay<T> for Bytes, of a TMatrix<P>
Bytes_decay_tmatrix(from) == TMatrix_byte_len(from).val

\* From<Matrix> for DynLayout
DynLayout_from_matrix(mat) == [kind |-> "Matrix", matrix |-> mat, yuv |-> NoYuv]

\* From<Yuv420p> for DynLayout
DynLayout_from_yuv(yuv) == [kind |-> "Yuv420p", matrix |-> NoMatrix, yuv |-> yuv]

\* DynLayout::byte_len
DynLayout_byte_len_of_luma(self) ==
    IF self.kind = "Matrix"
    THEN Matrix_byte_len(self.matrix)
    ELSE Matrix_byte_len([element |-> self.yuv.channel,
                          first_dim |-> self.yuv.width,
                          second_dim |-> self.yuv.height])
DynLayout_byte_len(self) ==
    IF self.kind = "Matrix"
    THEN Matrix_byte_len(self.matrix)
    ELSE Yuv420p_byte_len(self.yuv)

\* Decay<T> for Bytes, of a DynLayout
Bytes_decay_dyn(from) == DynLayout_byte_len(from).val

\* SampleSlice::len, provided, of a TMatrix<P>: the division panics for a
\* divisor of zero
SampleSlice_len(self) ==
    IF Pixel_size(self.pixel) = 0
    THEN [kind |-> "Panic", len |-> 0]
    ELSE [kind |-> "Ok", len |-> TMatrix_byte_len(self).val \div Pixel_size(self.pixel)]

\* TryMend<Matrix> for Pixel<P>
Pixel_try_mend(self, mat) ==
    LET made == TMatrix_with_matrix(self, mat)
    IN  IF made.kind = "Some"
        THEN [kind |-> "Ok", tmatrix |-> made.tmatrix]
        ELSE [kind |-> "Err", tmatrix |-> NoTMatrix]

\* Take for Bytes: the layout afterwards and the value returned
Bytes_take(self) == [self |-> 0, ret |-> self]

\* Take for Matrix
Matrix_take_copy(self) == [self |-> self, ret |-> self]
Matrix_take(self) == [self |-> Matrix_empty(self.element), ret |-> self]

\* Take for TMatrix<P>
TMatrix_take(self) == [self |-> TMatrix_empty(self.pixel), ret |-> self]

\* the pixel witnesses; the signed and float constants have the size and the
\* alignment of the unsigned ones
Pixels ==
    {Pixel_EMPTY, Pixel_U8, Pixel_U16, Pixel_U32, Pixel_U64,
     Pixel_RGB, Pixel_RGBA, Pixel_MAX}

AlgDims == {0, 1, 2, 3, 5, USIZE_MAX}

InitAlgebra ==
    /\ DrmIdle
    /\ OrdIdle
    /\ CastIdle
    /\ ElemIdle
    /\ MatIdle
    /\ YuvIdle
    /\ \E e \in Elements, w \in AlgDims, h \in AlgDims :
         LET made == Matrix_from_width_height(e, w, h)
         IN  /\ made.kind = "Some"
             /\ matrix = made.matrix
    /\ pixel \in Pixels
    /\ tmatrix = NoMend
    /\ decayed = NoDecay
    /\ mended = NoMend
    /\ blayout = NoBytes
    /\ taken = NoTake
    /\ dyn = NoDyn
    /\ slen = NoLen

\* pixel.try_mend(&matrix)
TryMend ==
    /\ tmatrix.kind = "none"
    /\ LET r == Pixel_try_mend(pixel, matrix)
       IN  tmatrix' = [kind |-> r.kind, tmatrix |-> r.tmatrix, from |-> matrix]
    /\ UNCHANGED <<drmvars, matvars, yuvvars, matrix, pixel, decayed, mended, blayout, taken, dyn, slen, elemvars, castvars, ordvars>>

\* Matrix::decay(tmatrix)
Decay ==
    /\ tmatrix.kind = "Ok"
    /\ decayed.kind = "none"
    /\ decayed' = [kind |-> "Some",
                   from |-> tmatrix.tmatrix,
                   matrix |-> Matrix_decay(tmatrix.tmatrix)]
    /\ UNCHANGED <<drmvars, matvars, yuvvars, matrix, pixel, tmatrix, mended, blayout, taken, dyn, slen, elemvars, castvars, ordvars>>

\* pixel.try_mend(&decayed), with the pixel witness of the decayed TMatrix
MendDecayed ==
    /\ decayed.kind = "Some"
    /\ mended.kind = "none"
    /\ LET r == Pixel_try_mend(decayed.from.pixel, decayed.matrix)
       IN  mended' = [kind |-> r.kind, tmatrix |-> r.tmatrix, from |-> decayed.matrix]
    /\ UNCHANGED <<drmvars, matvars, yuvvars, matrix, pixel, tmatrix, decayed, blayout, taken, dyn, slen, elemvars, castvars, ordvars>>

\* Bytes::decay(matrix)
DecayBytes ==
    /\ blayout.kind = "none"
    /\ blayout' = [kind |-> "Some", from |-> "Matrix", len |-> Bytes_decay(matrix)]
    /\ UNCHANGED <<drmvars, matvars, yuvvars, matrix, pixel, tmatrix, decayed, mended, taken, dyn, slen, elemvars, castvars, ordvars>>

\* blayout.take()
TakeBytes ==
    /\ blayout.kind = "Some"
    /\ taken.kind = "none"
    /\ LET t == Bytes_take(blayout.len)
       IN  /\ blayout' = [blayout EXCEPT !.len = t.self]
           /\ taken' = [kind |-> "Bytes", before |-> blayout.len, ret |-> t.ret]
    /\ UNCHANGED <<drmvars, matvars, yuvvars, matrix, pixel, tmatrix, decayed, mended, dyn, slen, elemvars, castvars, ordvars>>

\* matrix.take()
TakeMatrix ==
    /\ taken.kind = "none"
    /\ LET t == Matrix_take(matrix)
       IN  /\ matrix' = t.self
           /\ taken' = [kind |-> "Matrix", before |-> matrix, ret |-> t.ret]
    /\ UNCHANGED <<drmvars, matvars, yuvvars, pixel, tmatrix, decayed, mended, blayout, dyn, slen, elemvars, castvars, ordvars>>

\* tmatrix.take()
TakeTMatrix ==
    /\ tmatrix.kind = "Ok"
    /\ taken.kind = "none"
    /\ LET t == TMatrix_take(tmatrix.tmatrix)
       IN  /\ tmatrix' = [tmatrix EXCEPT !.tmatrix = t.self]
           /\ taken' = [kind |-> "TMatrix", before |-> tmatrix.tmatrix, ret |-> t.ret]
    /\ UNCHANGED <<drmvars, matvars, yuvvars, matrix, pixel, decayed, mended, blayout, dyn, slen, elemvars, castvars, ordvars>>

\* Bytes::decay(tmatrix)
DecayBytesTMatrix ==
    /\ blayout.kind = "none"
    /\ tmatrix.kind = "Ok"
    /\ blayout' = [kind |-> "Some", from |-> "TMatrix",
                   len |-> Bytes_decay_tmatrix(tmatrix.tmatrix)]
    /\ UNCHANGED <<drmvars, matvars, yuvvars, matrix, pixel, tmatrix, decayed, mended, taken, dyn, slen, elemvars, castvars, ordvars>>

\* Bytes::decay(dyn)
DecayBytesDyn ==
    /\ blayout.kind = "none"
    /\ dyn.kind # "none"
    /\ blayout' = [kind |-> "Some", from |-> "DynLayout", len |-> Bytes_decay_dyn(dyn)]
    /\ UNCHANGED <<drmvars, matvars, yuvvars, matrix, pixel, tmatrix, decayed, mended, taken, dyn, slen, elemvars, castvars, ordvars>>

\* DynLayout::from(matrix)
DynFromMatrix ==
    /\ dyn.kind = "none"
    /\ dyn' = DynLayout_from_matrix(matrix)
    /\ UNCHANGED <<drmvars, matvars, yuvvars, matrix, pixel, tmatrix, decayed, mended, blayout, taken, slen, elemvars, castvars, ordvars>>

\* channels and dimensions of the Yuv420p layouts made dynamic
DynChannels == {Element_U8, Element_U16}
DynWidths == {0, 2, 4}
DynHeights == {2, 3}

\* DynLayout::from(yuv), of a Yuv420p as from_width_height constructs it
DynFromYuv ==
    /\ dyn.kind = "none"
    /\ \E e \in DynChannels, w \in DynWidths, h \in DynHeights :
         LET made == Yuv420p_from_width_height(e, w, h)
         IN  /\ made.kind = "Some"
             /\ dyn' = DynLayout_from_yuv(made.yuv)
    /\ UNCHANGED <<drmvars, matvars, yuvvars, matrix, pixel, tmatrix, decayed, mended, blayout, taken, slen, elemvars, castvars, ordvars>>

\* tmatrix.len(), of SampleSlice
SampleLen ==
    /\ tmatrix.kind = "Ok"
    /\ slen.kind = "none"
    /\ slen' = SampleSlice_len(tmatrix.tmatrix)
    /\ UNCHANGED <<drmvars, matvars, yuvvars, matrix, pixel, tmatrix, decayed, mended, blayout, taken, dyn, elemvars, castvars, ordvars>>

NextAlgebra ==
    \/ TryMend
    \/ Decay
    \/ MendDecayed
    \/ DecayBytes
    \/ TakeBytes
    \/ TakeMatrix
    \/ TakeTMatrix

SpecAlgebra == InitAlgebra /\ [][NextAlgebra]_vars

\* elements and dimensions of the matrices converted between layout kinds
ConvElements == {Element_from(p) : p \in Pixels} \cup {[size |-> 4, align |-> 2]}
ConvDims == {0, 2, 3}

InitConvert ==
    /\ DrmIdle
    /\ OrdIdle
    /\ CastIdle
    /\ ElemIdle
    /\ MatIdle
    /\ YuvIdle
    /\ \E e \in ConvElements, w \in ConvDims, h \in ConvDims :
         LET made == Matrix_from_width_height(e, w, h)
         IN  /\ made.kind = "Some"
             /\ matrix = made.matrix
    /\ pixel \in Pixels
    /\ tmatrix = NoMend
    /\ decayed = NoDecay
    /\ mended = NoMend
    /\ blayout = NoBytes
    /\ taken = NoTake
    /\ dyn = NoDyn
    /\ slen = NoLen

NextConvert ==
    \/ NextAlgebra
    \/ DecayBytesTMatrix
    \/ DecayBytesDyn
    \/ DynFromMatrix
    \/ DynFromYuv
    \/ SampleLen

SpecConvert == InitConvert /\ [][NextConvert]_vars

\* C12: decaying a TMatrix<P> t to a Matrix and mending the Matrix with the
\* pixel witness of t succeeds and yields a TMatrix<P> equal to t: the same
\* first_dim, second_dim and element size.
C12_DecayMendRoundTrip ==
    mended.kind # "none" =>
        /\ mended.kind = "Ok"
        /\ mended.tmatrix = decayed.from
        /\ mended.tmatrix.first_dim = decayed.from.first_dim
        /\ mended.tmatrix.second_dim = decayed.from.second_dim
        /\ Pixel_size(mended.tmatrix.pixel) = Pixel_size(decayed.from.pixel)

\* a TMatrix of unequal non-zero dimensions, of a pixel larger than its
\* alignment, has been decayed and mended back
C12_Witness ==
    /\ mended.kind = "Ok"
    /\ decayed.from.first_dim > decayed.from.second_dim
    /\ decayed.from.second_dim > 0
    /\ decayed.from.pixel.size > decayed.from.pixel.align

\* C13: pixel.try_mend(&matrix) returns Err exactly when size_of(P) differs
\* from the element size of the matrix; on success the TMatrix<P> has the
\* dimensions of the matrix; the call leaves the matrix unchanged.
C13_TryMendBySize ==
    [][TryMend =>
        /\ tmatrix'.kind \in {"Ok", "Err"}
        /\ tmatrix'.kind = "Err" <=> Pixel_size(pixel) # matrix.element.size
        /\ tmatrix'.kind = "Ok" =>
             /\ tmatrix'.tmatrix.first_dim = matrix.first_dim
             /\ tmatrix'.tmatrix.second_dim = matrix.second_dim
        /\ matrix' = matrix]_vars

\* a pixel has been mended onto a non-empty matrix whose element has the size
\* but not the alignment of the pixel
C13_Witness ==
    /\ tmatrix.kind = "Ok"
    /\ taken.kind = "none"
    /\ tmatrix.from.element.align # Pixel_align(pixel)
    /\ tmatrix.tmatrix.first_dim * tmatrix.tmatrix.second_dim > 0

\* C14: take() on a Bytes, a Matrix or a TMatrix<P> returns the layout as it
\* was before the call and leaves a layout of byte_len() 0 with the element or
\* pixel type it had before.
C14_TakeEmpties ==
    /\ taken.kind = "Bytes" =>
         /\ taken.ret = taken.before
         /\ blayout.len = 0
    /\ taken.kind = "Matrix" =>
         /\ taken.ret = taken.before
         /\ Matrix_byte_len(matrix) = [overflow |-> FALSE, val |-> 0]
         /\ matrix.element = taken.before.element
    /\ taken.kind = "TMatrix" =>
         /\ taken.ret = taken.before
         /\ TMatrix_byte_len(tmatrix.tmatrix) = [overflow |-> FALSE, val |-> 0]
         /\ tmatrix.tmatrix.pixel = taken.before.pixel

\* a Matrix of more than zero blayout, its element larger than its alignment, has
\* been taken
C14_Witness ==
    /\ taken.kind = "Matrix"
    /\ Matrix_byte_len(taken.before).val > 0
    /\ taken.before.element.size > taken.before.element.align

----------------------------------------------------------------------------
(* Element: constructors, packed, infimum, the partial order (SpecElement) *)

\* Element::from_pixel
Element_from_pixel(pix) == [size |-> Pixel_size(pix), align |-> Pixel_align(pix)]

\* Element::with_layout, of an alloc::Layout of the given size and alignment
Element_with_layout_undivided(size, align) ==
    IF align > Pixel_align(Pixel_MAX)
    THEN [kind |-> "None", element |-> Element_U8]
    ELSE [kind |-> "Some", element |-> [size |-> size, align |-> align]]
Element_with_layout(size, align) ==
    IF align > Pixel_align(Pixel_MAX)
    THEN [kind |-> "None", element |-> Element_U8]
    ELSE IF size % align # 0
    THEN [kind |-> "None", element |-> Element_U8]
    ELSE [kind |-> "Some", element |-> [size |-> size, align |-> align]]

\* usize::min
min_usize(a, b) == IF a <= b THEN a ELSE b

\* Element::packed: panics unless align is a power of two
Element_packed(self, align) ==
    IF ~is_power_of_two(align)
    THEN [kind |-> "Panic", element |-> self]
    ELSE [kind |-> "Some",
          element |-> [self EXCEPT !.align = min_usize(self.align, align)]]

\* Element::infimum
Element_infimum_of_size(self, other) ==
    [size |-> min_usize(self.size, other.size), align |-> self.align]
Element_infimum(self, other) ==
    [size |-> min_usize(self.size, other.size),
     align |-> min_usize(self.align, other.align)]

\* Element::size
Element_size(self) == self.size

\* Element::align
Element_align(self) == self.size

\* PartialOrd for Element: partial_cmp
Element_partial_cmp_by_size_first(self, other) ==
    IF self.size = other.size /\ self.align = other.align THEN "Equal"
    ELSE IF self.size < other.size THEN "Less"
    ELSE IF self.size > other.size THEN "Greater"
    ELSE IF self.align < other.align THEN "Less"
    ELSE "Greater"
Element_partial_cmp_by_size(self, other) ==
    IF self.size = other.size /\ self.align = other.align THEN "Equal"
    ELSE IF self.size <= other.size THEN "Less"
    ELSE "Greater"
Element_partial_cmp(self, other) ==
    IF self.size = other.size /\ self.align = other.align THEN "Equal"
    ELSE IF self.size <= other.size /\ self.align <= other.align THEN "Less"
    ELSE IF self.size >= other.size /\ self.align >= other.align THEN "Greater"
    ELSE "None"

\* Ord for Element, as derived: the fields compared in their order of
\* declaration, size before align
Element_cmp(self, other) ==
    IF self.size < other.size THEN "Less"
    ELSE IF self.size > other.size THEN "Greater"
    ELSE IF self.align < other.align THEN "Less"
    ELSE IF self.align > other.align THEN "Greater"
    ELSE "Equal"

\* PartialOrd::le, as provided from partial_cmp
Element_le(self, other) == Element_partial_cmp(self, other) \in {"Less", "Equal"}

\* sizes and alignments of the alloc::Layout values handed to with_layout; an
\* alloc::Layout has a power of two as its alignment
LayoutSizes == {0, 2, 3, 12, 16}
LayoutAligns == {1, 4, 16, 32}

\* alignments handed to packed
PackedAligns == {0, 1, 2, 3, 8}

InitElement ==
    /\ DrmIdle
    /\ OrdIdle
    /\ CastIdle
    /\ MatIdle
    /\ YuvIdle
    /\ AlgIdle
    /\ elems = [r \in Slots |-> NoElement]
    /\ eop = NoOp

\* elems[r] = Element::from_pixel::<P>(), or Element::from(pix)
FromPixel(r, pix) ==
    /\ elems' = [elems EXCEPT ![r] = [kind |-> "Some", element |-> Element_from_pixel(pix)]]
    /\ eop' = [op |-> "from_pixel", size |-> 0, align |-> 0, kind |-> "Some", val |-> 0]
    /\ UNCHANGED <<drmvars, matvars, yuvvars, algvars, castvars, ordvars>>

\* elems[r] = Element::with_layout(layout), kept when it is Some
WithLayout(r, size, align) ==
    /\ LET made == Element_with_layout(size, align)
       IN  /\ elems' = IF made.kind = "Some"
                       THEN [elems EXCEPT ![r] = made]
                       ELSE elems
           /\ eop' = [op |-> "with_layout", size |-> size, align |-> align,
                      kind |-> made.kind, val |-> 0]
    /\ UNCHANGED <<drmvars, matvars, yuvvars, algvars, castvars, ordvars>>

\* elems[r] = Element::MAX_SIZE
MaxSize(r) ==
    /\ elems' = [elems EXCEPT ![r] = [kind |-> "Some", element |-> Element_MAX_SIZE]]
    /\ eop' = [op |-> "MAX_SIZE", size |-> 0, align |-> 0, kind |-> "Some", val |-> 0]
    /\ UNCHANGED <<drmvars, matvars, yuvvars, algvars, castvars, ordvars>>

\* elems[r] = elems[r].packed(align)
Packed(r, align) ==
    /\ elems[r].kind = "Some"
    /\ LET made == Element_packed(elems[r].element, align)
       IN  /\ elems' = IF made.kind = "Some"
                       THEN [elems EXCEPT ![r] = made]
                       ELSE elems
           /\ eop' = [op |-> "packed", size |-> 0, align |-> align,
                      kind |-> made.kind, val |-> 0]
    /\ UNCHANGED <<drmvars, matvars, yuvvars, algvars, castvars, ordvars>>

\* elems[r] = elems[r].infimum(elems[o])
Infimum(r, o) ==
    /\ elems[r].kind = "Some"
    /\ elems[o].kind = "Some"
    /\ elems' = [elems EXCEPT ![r].element =
                    Element_infimum(elems[r].element, elems[o].element)]
    /\ eop' = [op |-> "infimum", size |-> elems[r].element.size,
               align |-> elems[r].element.align, kind |-> "Some", val |-> 0]
    /\ UNCHANGED <<drmvars, matvars, yuvvars, algvars, castvars, ordvars>>

\* elems["a"].partial_cmp(&elems["b"])
PartialCmp ==
    /\ elems["a"].kind = "Some"
    /\ elems["b"].kind = "Some"
    /\ eop' = [op |-> "partial_cmp", size |-> 0, align |-> 0,
               kind |-> Element_partial_cmp(elems["a"].element, elems["b"].element),
               val |-> 0]
    /\ UNCHANGED <<drmvars, matvars, yuvvars, algvars, elems, castvars, ordvars>>

\* elems["a"].cmp(&elems["b"])
Cmp ==
    /\ elems["a"].kind = "Some"
    /\ elems["b"].kind = "Some"
    /\ eop' = [op |-> "cmp", size |-> 0, align |-> 0,
               kind |-> Element_cmp(elems["a"].element, elems["b"].element),
               val |-> 0]
    /\ UNCHANGED <<drmvars, matvars, yuvvars, algvars, elems, castvars, ordvars>>

\* elems[r].size()
Size(r) ==
    /\ elems[r].kind = "Some"
    /\ eop' = [op |-> "size", size |-> elems[r].element.size,
               align |-> elems[r].element.align, kind |-> "Some",
               val |-> Element_size(elems[r].element)]
    /\ UNCHANGED <<drmvars, matvars, yuvvars, algvars, elems, castvars, ordvars>>

\* elems[r].align()
Align(r) ==
    /\ elems[r].kind = "Some"
    /\ eop' = [op |-> "align", size |-> elems[r].element.size,
               align |-> elems[r].element.align, kind |-> "Some",
               val |-> Element_align(elems[r].element)]
    /\ UNCHANGED <<drmvars, matvars, yuvvars, algvars, elems, castvars, ordvars>>

NextElement ==
    \/ \E r \in Slots, pix \in Pixels : FromPixel(r, pix)
    \/ \E r \in Slots, size \in LayoutSizes, align \in LayoutAligns : WithLayout(r, size, align)
    \/ \E r \in Slots : MaxSize(r)
    \/ \E r \in Slots, align \in PackedAligns : Packed(r, align)
    \/ \E r \in Slots, o \in Slots : Infimum(r, o)
    \/ PartialCmp
    \/ Cmp
    \/ \E r \in Slots : Size(r)
    \/ \E r \in Slots : Align(r)

SpecElement == InitElement /\ [][NextElement]_vars

\* C15: for all Elements a and b, a.infimum(b) <= a and a.infimum(b) <= b
\* under partial_cmp, a.infimum(b) == b.infimum(a), and a.infimum(a) == a.
C15_InfimumIsMeet ==
    [][\A r \in Slots, o \in Slots :
         Infimum(r, o) =>
            LET a == elems[r].element
                b == elems[o].element
                meet == elems'[r].element
            IN  /\ Element_le(meet, a)
                /\ Element_le(meet, b)
                /\ meet = Element_infimum(b, a)
                /\ r = o => meet = a]_vars

\* the infimum of two incomparable Elements has been taken: it differs from
\* both
C15_Witness ==
    /\ eop.op = "infimum"
    /\ \E r \in Slots, o \in Slots :
         LET a == [size |-> eop.size, align |-> eop.align]
             b == elems[o].element
         IN  /\ r # o
             /\ elems[r].element = Element_infimum(a, b)
             /\ elems[r].element # a
             /\ elems[r].element # b
             /\ Element_partial_cmp(a, b) = "None"

\* C16 as stated: partial_cmp returns None when one Element has the larger
\* size but the smaller or equal alignment, or vice versa; a <= b is reported
\* only when both size and alignment of a are <= those of b.
C16_IncomparableOnEqualAlign ==
    eop.op = "partial_cmp" =>
        LET a == elems["a"].element
            b == elems["b"].element
        IN  /\ (\/ a.size > b.size /\ a.align <= b.align
                \/ b.size > a.size /\ b.align <= a.align)
               => eop.kind = "None"
            /\ eop.kind \in {"Less", "Equal"} =>
                 a.size <= b.size /\ a.align <= b.align

\* C16 as amended: partial_cmp returns None when one Element has the larger
\* size but the strictly smaller alignment, or vice versa; a <= b is reported
\* only when both size and alignment of a are <= those of b.
C16_IncomparableOnOpposedOrder ==
    eop.op = "partial_cmp" =>
        LET a == elems["a"].element
            b == elems["b"].element
        IN  /\ (\/ a.size > b.size /\ a.align < b.align
                \/ b.size > a.size /\ b.align < a.align)
               => eop.kind = "None"
            /\ eop.kind \in {"Less", "Equal"} =>
                 a.size <= b.size /\ a.align <= b.align

\* two Elements of opposed size and alignment have been compared
C16_Witness ==
    /\ eop.op = "partial_cmp"
    /\ eop.kind = "None"
    /\ elems["a"].element.size > elems["b"].element.size
    /\ elems["a"].element.align < elems["b"].element.align
    /\ elems["b"].element.align > 1

\* C17: every Element built by from_pixel, From<Pixel<P>>, with_layout,
\* MAX_SIZE, packed and infimum, in any sequence, has an alignment that is a
\* power of two and at most 16 and a size that is a multiple of its alignment;
\* with_layout returns None exactly when the requested alignment exceeds 16 or
\* the size is not a multiple of the alignment.
C17_ElementWellFormed ==
    /\ \A r \in Slots :
         elems[r].kind = "Some" =>
            /\ is_power_of_two(elems[r].element.align)
            /\ elems[r].element.align <= MAX_ALIGN
            /\ elems[r].element.size % elems[r].element.align = 0
    /\ eop.op = "with_layout" =>
         (eop.kind = "None" <=> (eop.align > MAX_ALIGN \/ eop.size % eop.align # 0))
    /\ eop.op = "with_layout" /\ eop.kind = "Some" =>
         \E r \in Slots : elems[r].element = [size |-> eop.size, align |-> eop.align]

\* with_layout has refused a size that is no multiple of an alignment within
\* the maximum, while two different Elements are held
C17_Witness ==
    /\ eop.op = "with_layout"
    /\ eop.kind = "None"
    /\ eop.align <= MAX_ALIGN
    /\ elems["a"].kind = "Some"
    /\ elems["b"].kind = "Some"
    /\ elems["a"].element.size > elems["b"].element.size
    /\ elems["a"].element.align > elems["b"].element.align

\* C18: Element::align() returns the alignment the Element was built with and
\* Element::size() its size, also when the two differ.
C18_AlignReturnsAlignment ==
    /\ eop.op = "align" => eop.val = eop.align
    /\ eop.op = "size" => eop.val = eop.size

----------------------------------------------------------------------------
(* Casting between bytes and typed slices (SpecCast) *)

\* buf::ALIGNMENT
buf_ALIGNMENT == MAX_ALIGN

\* buf::from_bytes: the bytes wrapped as they are, if they start aligned
buf_from_bytes_half_aligned(slice) ==
    IF slice.addr % (buf_ALIGNMENT \div 2) = 0
    THEN [kind |-> "Some", addr |-> slice.addr, len |-> slice.len]
    ELSE [kind |-> "None", addr |-> 0, len |-> 0]
buf_from_bytes(slice) ==
    IF slice.addr % buf_ALIGNMENT = 0
    THEN [kind |-> "Some", addr |-> slice.addr, len |-> slice.len]
    ELSE [kind |-> "None", addr |-> 0, len |-> 0]

\* buf::from_bytes_mut
buf_from_bytes_mut(slice) ==
    IF slice.addr % buf_ALIGNMENT = 0
    THEN [kind |-> "Some", addr |-> slice.addr, len |-> slice.len]
    ELSE [kind |-> "None", addr |-> 0, len |-> 0]

\* Pixel::cast_buf; a debug build asserts the alignment of the buffer first
Pixel_cast_buf_rounded_up(self, buffer) ==
    IF Pixel_size(self) = 0
    THEN [kind |-> "Some", addr |-> buffer.addr, count |-> USIZE_MAX]
    ELSE [kind |-> "Some", addr |-> buffer.addr,
          count |-> (buffer.len + Pixel_size(self) - 1) \div Pixel_size(self)]
Pixel_cast_buf(self, buffer) ==
    IF buffer.addr % MAX_ALIGN # 0 \/ buffer.addr % Pixel_align(self) # 0
    THEN [kind |-> "Panic", addr |-> 0, count |-> 0]
    ELSE IF Pixel_size(self) = 0
    THEN [kind |-> "Some", addr |-> buffer.addr, count |-> USIZE_MAX]
    ELSE [kind |-> "Some", addr |-> buffer.addr,
          count |-> buffer.len \div Pixel_size(self)]

\* Pixel::cast_mut_buf
Pixel_cast_mut_buf(self, buffer) ==
    IF buffer.addr % MAX_ALIGN # 0 \/ buffer.addr % Pixel_align(self) # 0
    THEN [kind |-> "Panic", addr |-> 0, count |-> 0]
    ELSE IF Pixel_size(self) = 0
    THEN [kind |-> "Some", addr |-> buffer.addr, count |-> USIZE_MAX]
    ELSE [kind |-> "Some", addr |-> buffer.addr,
          count |-> buffer.len \div Pixel_size(self)]

\* mem::size_of_val of a slice of P
size_of_val(self, slice) == mul_usize(Pixel_size(self), slice.count).val

\* Pixel::cast_bytes
Pixel_cast_bytes_by_count(self, slice) ==
    [kind |-> "Some", addr |-> slice.addr, len |-> slice.count]
Pixel_cast_bytes(self, slice) ==
    [kind |-> "Some", addr |-> slice.addr, len |-> size_of_val(self, slice)]

\* Pixel::cast_mut_bytes
Pixel_cast_mut_bytes(self, slice) ==
    [kind |-> "Some", addr |-> slice.addr, len |-> size_of_val(self, slice)]

\* addresses and lengths of the byte slices
CastAddrs == {0, 8, 16, 32}
CastLens == 0..33

InitCast ==
    /\ DrmIdle
    /\ OrdIdle
    /\ MatIdle
    /\ YuvIdle
    /\ AlgIdle
    /\ ElemIdle
    /\ \E a \in CastAddrs, l \in CastLens, p \in Pixels, m \in BOOLEAN :
         castin = [addr |-> a, len |-> l, pix |-> p, mutable |-> m]
    /\ abuf = NoBuf
    /\ pslice = NoSlice
    /\ pbytes = NoBuf
    /\ rbuf = NoBuf
    /\ rslice = NoSlice

\* buf::from_bytes(bytes), or buf::from_bytes_mut(bytes)
FromBytes ==
    /\ abuf.kind = "none"
    /\ abuf' = IF castin.mutable
               THEN buf_from_bytes_mut(castin)
               ELSE buf_from_bytes(castin)
    /\ UNCHANGED <<drmvars, matvars, yuvvars, algvars, elemvars,
                   castin, pslice, pbytes, rbuf, rslice, ordvars>>

\* pix.cast_buf(abuf), or pix.cast_mut_buf(abuf)
CastBuf ==
    /\ abuf.kind = "Some"
    /\ pslice.kind = "none"
    /\ pslice' = IF castin.mutable
                 THEN Pixel_cast_mut_buf(castin.pix, abuf)
                 ELSE Pixel_cast_buf(castin.pix, abuf)
    /\ UNCHANGED <<drmvars, matvars, yuvvars, algvars, elemvars,
                   castin, abuf, pbytes, rbuf, rslice, ordvars>>

\* pix.cast_to_bytes(pslice), or pix.cast_to_mut_bytes(pslice)
CastBytes ==
    /\ pslice.kind = "Some"
    /\ pbytes.kind = "none"
    /\ pbytes' = IF castin.mutable
                 THEN Pixel_cast_mut_bytes(castin.pix, pslice)
                 ELSE Pixel_cast_bytes(castin.pix, pslice)
    /\ UNCHANGED <<drmvars, matvars, yuvvars, algvars, elemvars,
                   castin, abuf, pslice, rbuf, rslice, ordvars>>

\* buf::from_bytes(pbytes), or buf::from_bytes_mut(pbytes)
FromCastBytes ==
    /\ pbytes.kind = "Some"
    /\ rbuf.kind = "none"
    /\ rbuf' = IF castin.mutable
               THEN buf_from_bytes_mut(pbytes)
               ELSE buf_from_bytes(pbytes)
    /\ UNCHANGED <<drmvars, matvars, yuvvars, algvars, elemvars,
                   castin, abuf, pslice, pbytes, rslice, ordvars>>

\* pix.cast_buf(rbuf), or pix.cast_mut_buf(rbuf)
CastBack ==
    /\ rbuf.kind = "Some"
    /\ rslice.kind = "none"
    /\ rslice' = IF castin.mutable
                 THEN Pixel_cast_mut_buf(castin.pix, rbuf)
                 ELSE Pixel_cast_buf(castin.pix, rbuf)
    /\ UNCHANGED <<drmvars, matvars, yuvvars, algvars, elemvars,
                   castin, abuf, pslice, pbytes, rbuf, ordvars>>

NextCast == FromBytes \/ CastBuf \/ CastBytes \/ FromCastBytes \/ CastBack

SpecCast == InitCast /\ [][NextCast]_vars

\* C19: casting an aligned buffer of len bytes to a slice of a non-zero-sized
\* P, shared or mutable, gives exactly floor(len / size_of(P)) elements
\* starting at the first byte of the buffer: trailing bytes are dropped without
\* an error and the slice never covers more than len bytes.
C19_CastBufFloor ==
    (pslice.kind # "none" /\ Pixel_size(castin.pix) # 0) =>
        /\ pslice.kind = "Some"
        /\ pslice.count = castin.len \div Pixel_size(castin.pix)
        /\ pslice.addr = castin.addr
        /\ pslice.count * Pixel_size(castin.pix) <= castin.len

\* a buffer whose length is no multiple of size_of(P) has been cast to a
\* mutable slice of several elements
C19_Witness ==
    /\ pslice.kind = "Some"
    /\ castin.mutable
    /\ Pixel_size(castin.pix) > 1
    /\ castin.len % Pixel_size(castin.pix) # 0
    /\ pslice.count > 1
    /\ castin.addr > 0

\* C20: casting a slice of n elements of P to bytes gives exactly
\* size_of(P) * n bytes; so bytes -> [P] -> bytes on a buffer of len bytes gives
\* floor(len / size_of(P)) * size_of(P) bytes and [P] -> bytes -> [P] keeps the
\* element count, for a non-zero-sized P.
C20_CastBytesExact ==
    /\ pbytes.kind # "none" =>
         /\ pbytes.kind = "Some"
         /\ pbytes.addr = pslice.addr
         /\ Pixel_size(castin.pix) # 0 =>
              /\ pbytes.len = Pixel_size(castin.pix) * pslice.count
              /\ pbytes.len =
                   (castin.len \div Pixel_size(castin.pix)) * Pixel_size(castin.pix)
         /\ Pixel_size(castin.pix) = 0 => pbytes.len = 0
    /\ (rslice.kind # "none" /\ Pixel_size(castin.pix) # 0) =>
         /\ rslice.kind = "Some"
         /\ rslice.count = pslice.count
         /\ rslice.addr = pslice.addr

\* a slice of several elements, cast from a buffer with trailing bytes, has
\* been cast to bytes and back
C20_Witness ==
    /\ rslice.kind = "Some"
    /\ Pixel_size(castin.pix) > 1
    /\ pslice.count > 1
    /\ pbytes.len < castin.len

\* C21: buf::from_bytes and buf::from_bytes_mut return None exactly when the
\* byte slice does not start at an address divisible by 16; a buffer they
\* return has the address and the length of the slice; they never panic.
C21_FromBytesAligned ==
    abuf.kind # "none" =>
        /\ abuf.kind \in {"Some", "None"}
        /\ abuf.kind = "None" <=> castin.addr % 16 # 0
        /\ abuf.kind = "Some" =>
             /\ abuf.addr = castin.addr
             /\ abuf.len = castin.len

\* a non-empty byte slice starting at an address that is a multiple of 8 but
\* not of 16 has been refused
C21_Witness ==
    /\ abuf.kind = "None"
    /\ ~castin.mutable
    /\ castin.addr % 8 = 0
    /\ castin.len > 0

----------------------------------------------------------------------------
(* Conversions between layout kinds and the sample count (SpecConvert) *)

\* C22: conversions between layout kinds keep the byte length: Bytes::decay(l)
\* has the byte_len() of l, for l a Matrix, a TMatrix<P> or a DynLayout;
\* Matrix::decay(t) has the byte_len() of the TMatrix<P> t; a successful
\* try_mend of a Matrix m gives a TMatrix<P> of the byte_len() of m; and
\* DynLayout::from(x) has the byte_len() of x, for x a Matrix or a Yuv420p.
C22_ConversionsKeepByteLen ==
    [][/\ DecayBytes =>
            Bytes_byte_len(blayout'.len) = Matrix_byte_len(matrix).val
       /\ DecayBytesTMatrix =>
            Bytes_byte_len(blayout'.len) = TMatrix_byte_len(tmatrix.tmatrix).val
       /\ DecayBytesDyn =>
            Bytes_byte_len(blayout'.len) = DynLayout_byte_len(dyn).val
       /\ Decay =>
            Matrix_byte_len(decayed'.matrix) = TMatrix_byte_len(tmatrix.tmatrix)
       /\ (TryMend /\ tmatrix'.kind = "Ok") =>
            TMatrix_byte_len(tmatrix'.tmatrix) = Matrix_byte_len(matrix)
       /\ (MendDecayed /\ mended'.kind = "Ok") =>
            TMatrix_byte_len(mended'.tmatrix) = Matrix_byte_len(decayed.matrix)
       /\ DynFromMatrix =>
            DynLayout_byte_len(dyn') = Matrix_byte_len(matrix)
       /\ DynFromYuv =>
            DynLayout_byte_len(dyn') = Yuv420p_byte_len(dyn'.yuv)]_vars

\* a Yuv420p of more than zero bytes has been made dynamic and decayed to
\* Bytes, next to a Matrix mended into a TMatrix<P> of more than zero bytes
C22_Witness ==
    /\ blayout.kind = "Some"
    /\ blayout.from = "DynLayout"
    /\ blayout.len > 0
    /\ dyn.kind = "Yuv420p"
    /\ tmatrix.kind = "Ok"
    /\ taken.kind = "none"
    /\ TMatrix_byte_len(tmatrix.tmatrix).val > 0

\* C23: for every TMatrix<P>, the empty one and one of a zero-sized P
\* included, SampleSlice::len() returns, without failing, a count n with
\* n * size_of(P) == byte_len().
C23_SampleLenCoversByteLen ==
    slen.kind # "none" =>
        /\ slen.kind = "Ok"
        /\ taken.kind # "TMatrix" =>
             slen.len * Pixel_size(tmatrix.tmatrix.pixel) =
                TMatrix_byte_len(tmatrix.tmatrix).val

----------------------------------------------------------------------------
(* DrmLayout::new as a total function, and the byte range of a plane *)

\* C24: DrmLayout::new returns Ok or Err for every DrmFramebufferCmd and never
\* panics or divides by zero; on Err there is no layout; the command is not
\* modified in either case.
C24_NewIsTotal ==
    [][New =>
        /\ res' \in {"Ok", "Err"}
        /\ res' = "Err" => layout' = NoLayout
        /\ res' = "Ok" => layout' # NoLayout
        /\ cmd' = cmd]_vars

\* a command of a registered format with a width of zero and a non-zero
\* offset has been refused
C24_Witness ==
    /\ res = "Err"
    /\ layout = NoLayout
    /\ cmd.fourcc \in Registered
    /\ cmd.width = 0
    /\ cmd.offsets[0] > 0

\* C25: on a constructed DrmLayout, every plane that plane(idx) returns lies
\* inside the buffer: its byte_len(), offset + plane_height * pitch, is at most
\* the byte_len() of the DrmLayout, and equal to it for the last plane in use;
\* computing it does not overflow.
C25_PlaneInsideBuffer ==
    planelen.kind # "none" =>
        /\ planelen.kind = "Ok"
        /\ planelen.start = planeq.plane.offset
        /\ planelen.end =
             planeq.plane.offset + planeq.plane.height * planeq.plane.pitch
        /\ planelen.end <= DrmLayout_byte_len(layout)
        /\ to_index(planeq.idx) = LastPlane(fmt) =>
             planelen.end = DrmLayout_byte_len(layout)

\* a plane of several rows, starting after the start of the buffer and with a
\* pitch that leaves padding behind each row, has been measured
C25_Witness ==
    /\ planelen.kind = "Ok"
    /\ planeq.plane.offset > 0
    /\ planeq.plane.height > 1
    /\ planeq.plane.pitch > planeq.plane.format.char_per_block * planeq.plane.width

----------------------------------------------------------------------------
(* The total comparison of Elements against their partial order *)

\* C26: for all Elements a and b, Ord::cmp(a, b) returns o only if
\* partial_cmp(a, b) == Some(o); no comparison ranks two Elements that the
\* partial order leaves incomparable.
C26_CmpAgreesWithPartialCmp ==
    eop.op = "cmp" =>
        Element_partial_cmp(elems["a"].element, elems["b"].element) = eop.kind

----------------------------------------------------------------------------
(* The order laws of partial_cmp and infimum over three Elements (SpecOrder) *)

\* the Elements the constructors give: of every pixel, of the layouts handed to
\* with_layout that it accepts, MAX_SIZE, and each of these packed
BuiltElements ==
    {Element_from_pixel(pix) : pix \in Pixels}
        \cup {made.element :
                 made \in {got \in {Element_with_layout(size, align) :
                                       size \in LayoutSizes, align \in LayoutAligns} :
                              got.kind = "Some"}}
        \cup {Element_MAX_SIZE}
OrderElements ==
    BuiltElements
        \cup {made.element :
                 made \in {got \in {Element_packed(element, align) :
                                       element \in BuiltElements, align \in PackedAligns} :
                              got.kind = "Some"}}

InitOrder ==
    /\ DrmIdle
    /\ MatIdle
    /\ YuvIdle
    /\ AlgIdle
    /\ ElemIdle
    /\ CastIdle
    /\ trio \in [Trio -> OrderElements]
    /\ ordtab = NoOrdTab
    /\ meets = NoMeets

\* x.partial_cmp(&y) for every pair x, y of the three Elements
CompareAll ==
    /\ ordtab.kind = "none"
    /\ ordtab' = [kind |-> "Some",
                  cmp |-> [x \in Trio, y \in Trio |->
                              Element_partial_cmp(trio[x], trio[y])]]
    /\ UNCHANGED <<drmvars, matvars, yuvvars, algvars, elemvars, castvars, trio, meets>>

\* a.infimum(b), c.partial_cmp(&a.infimum(b)), a.infimum(b).infimum(c) and
\* a.infimum(b.infimum(c))
MeetAll ==
    /\ meets.kind = "none"
    /\ LET ab == Element_infimum(trio["a"], trio["b"])
           bc == Element_infimum(trio["b"], trio["c"])
       IN  meets' = [kind |-> "Some",
                     ab |-> ab,
                     c_ab |-> Element_partial_cmp(trio["c"], ab),
                     ab_c |-> Element_infimum(ab, trio["c"]),
                     a_bc |-> Element_infimum(trio["a"], bc)]
    /\ UNCHANGED <<drmvars, matvars, yuvvars, algvars, elemvars, castvars, trio, ordtab>>

NextOrder == CompareAll \/ MeetAll

SpecOrder == InitOrder /\ [][NextOrder]_vars

\* x <= y as PartialOrd::le reads it off the recorded partial_cmp
Le(x, y) == ordtab.cmp[x, y] \in {"Less", "Equal"}

\* C27: partial_cmp is a partial order (reflexive, antisymmetric, transitive)
\* with a <= b iff a.size <= b.size and a.align <= b.align, and infimum is its
\* meet: for all Elements a, b, c with c <= a and c <= b, c <= a.infimum(b);
\* infimum is associative.
C27_PartialOrderWithMeet ==
    /\ ordtab.kind = "Some" =>
         \A x \in Trio, y \in Trio, z \in Trio :
            /\ Le(x, x)
            /\ Le(x, y) /\ Le(y, x) => trio[x] = trio[y]
            /\ Le(x, y) /\ Le(y, z) => Le(x, z)
            /\ Le(x, y) <=> (trio[x].size <= trio[y].size /\ trio[x].align <= trio[y].align)
    /\ meets.kind = "Some" =>
         /\ (/\ trio["c"].size <= trio["a"].size /\ trio["c"].align <= trio["a"].align
             /\ trio["c"].size <= trio["b"].size /\ trio["c"].align <= trio["b"].align)
            => meets.c_ab \in {"Less", "Equal"}
         /\ meets.ab_c = meets.a_bc

\* three different Elements have been compared and met: a and b incomparable,
\* c strictly below both and strictly below their infimum
C27_Witness ==
    /\ ordtab.kind = "Some"
    /\ meets.kind = "Some"
    /\ ordtab.cmp["a", "b"] = "None"
    /\ ordtab.cmp["c", "a"] = "Less"
    /\ ordtab.cmp["c", "b"] = "Less"
    /\ meets.c_ab = "Less"
    /\ meets.ab # trio["a"]
    /\ meets.ab # trio["b"]

====
